---- MODULE Spec2Model ----
(***************************************************************************)
(* Model of test-environment/mock-dbus/mock_modemmanager.py: the mock      *)
(* ModemManager service with its one Modem (Modem/0), the Modem's Sim and  *)
(* the Bearers created on it.                                              *)
(*                                                                         *)
(* All method handlers and all GLib timeout callbacks run on the one GLib  *)
(* main loop, so each is one atomic action.  Time is kept as the time left *)
(* on every pending timeout; it moves in steps of Quantum milliseconds,    *)
(* the greatest common divisor of the delays the code uses.                *)
(***************************************************************************)
EXTENDS Integers, Sequences, FiniteSets, TLC

(***************************************************************************)
(* Bounds of the model.                                                    *)
(***************************************************************************)
\* Calls of the methods that assign to a field (Enable, Reset, CreateBearer,
\* DeleteBearer, Connect, Disconnect) made in one behaviour of the whole
\* service.
MaxCalls == 3
\* Calls of Enable and Reset in one behaviour.
MaxModemCalls == 2
\* Calls of CreateBearer, DeleteBearer, Connect and Disconnect in one
\* behaviour.
MaxBearerCalls == 4

(***************************************************************************)
(* Modem state enumeration (source lines 47-59).                           *)
(***************************************************************************)
MM_MODEM_STATE_FAILED == -1
MM_MODEM_STATE_UNKNOWN == 0
MM_MODEM_STATE_INITIALIZING == 1
MM_MODEM_STATE_LOCKED == 2
MM_MODEM_STATE_DISABLED == 3
MM_MODEM_STATE_DISABLING == 4
MM_MODEM_STATE_ENABLING == 5
MM_MODEM_STATE_ENABLED == 6
MM_MODEM_STATE_SEARCHING == 7
MM_MODEM_STATE_REGISTERED == 8
MM_MODEM_STATE_DISCONNECTING == 9
MM_MODEM_STATE_CONNECTING == 10
MM_MODEM_STATE_CONNECTED == 11

MM_MODEM_CAPABILITY_GSM_UMTS == 4
MM_MODEM_CAPABILITY_LTE == 8
MM_MODEM_ACCESS_TECHNOLOGY_LTE == 16384

\* Delays handed to GLib.timeout_add, in milliseconds.
FINISH_ENABLE_DELAY == 1000
FINISH_DISABLE_DELAY == 1000
REGISTER_DELAY == 500
FINISH_REGISTER_DELAY == 1000

\* The third argument of every StateChanged emission.
STATE_CHANGED_REASON == 1

\* Numeric fields set by MockModem.__init__.
max_bearers == 1
max_active_bearers == 1
unlock_required == 1
power_state == 3
signal_quality == 75
all_modes == 519
supported_ip_families == 11

RECURSIVE GCD(_, _)
GCD(a, b) == IF b = 0 THEN a ELSE GCD(b, a % b)

\* The step of the clock: every delay is a whole number of quanta.
Quantum ==
    GCD(GCD(FINISH_ENABLE_DELAY, FINISH_DISABLE_DELAY),
        GCD(REGISTER_DELAY, FINISH_REGISTER_DELAY))

DBUS_OBJECT_PATH == "/org/freedesktop/ModemManager1"
ModemPath == <<DBUS_OBJECT_PATH, "Modem", 0>>
SimPath == <<DBUS_OBJECT_PATH, "Modem", 0, "Sim", 0>>
\* f"{self._object_path}/Bearer/{bearer_index}"
BearerPath(bearer_index) == <<DBUS_OBJECT_PATH, "Modem", 0, "Bearer", bearer_index>>

VARIABLES
    state,       \* MockModem.state
    enabled,     \* MockModem.enabled
    timers,      \* pending GLib timeouts, in the order they were attached
    bearers,     \* MockModem.bearers: list of bearer paths
    objects,     \* Bearer objects registered on the connection, by path
    events,      \* history: every StateChanged emission, oldest first
    lastOp,      \* history: the step taken last and what it returned
    lastCall,    \* history: the latest Enable or Reset call and what it found
    scheduled,   \* history: number of timeouts attached so far
    fired,       \* history: the timeouts dispatched so far, oldest first
    modemCalls,  \* number of Enable and Reset calls made
    calls        \* number of calls made of the methods that assign to a field

vars ==
    <<state, enabled, timers, bearers, objects, events, lastOp, lastCall,
      scheduled, fired, modemCalls, calls>>

modemVars == <<state, enabled, timers, events, lastCall, scheduled, fired, modemCalls>>
bearerVars == <<bearers, objects>>

Range(s) == {s[i] : i \in 1..Len(s)}

(***************************************************************************)
(* GLib timeouts.  A timeout is ready when its time has run out; the main  *)
(* loop dispatches ready sources in the order they were attached and does  *)
(* not sleep while one is ready.                                           *)
(***************************************************************************)
\* id numbers the sources in the order they were attached, as GLib's source
\* ids do.
Timer(cb, delay, id) == [cb |-> cb, left |-> delay, id |-> id]

\* GLib.timeout_add(delay, cb): attach a new source after the pending ones.
TimeoutAdd(ts, delay, cb) == Append(ts, Timer(cb, delay, scheduled + 1))

\* History of a dispatch: which source ran.
Dispatched(t) == Append(fired, [id |-> t.id, cb |-> t.cb])

Ready(ts) == {i \in 1..Len(ts) : ts[i].left = 0}

\* Mutant of NextReady: the main loop dispatches the ready source that was
\* attached last.
NextReadyLast(ts) == CHOOSE i \in Ready(ts) : \A j \in Ready(ts) : i >= j

\* The source the main loop dispatches next.
NextReady(ts) == CHOOSE i \in Ready(ts) : \A j \in Ready(ts) : i <= j

\* A callback returned False: its source is destroyed.
RemoveAt(s, i) == [j \in 1..(Len(s) - 1) |-> IF j < i THEN s[j] ELSE s[j + 1]]

Dispatching(cb) == Ready(timers) # {} /\ timers[NextReady(timers)].cb = cb

(***************************************************************************)
(* MockModem._emit_state_changed: StateChanged(self.state, self.state, 1). *)
(* It runs after the handler has assigned self.state, so st is the new     *)
(* value.  The field "was" is history: the value self.state had before the *)
(* handler assigned it; it is not part of the payload.                     *)
(***************************************************************************)
EmitStateChanged(evs, st, was) ==
    Append(evs, [old |-> st, new |-> st, reason |-> STATE_CHANGED_REASON,
                 was |-> was])

(***************************************************************************)
(* Initial state: MockModemManagerService.__init__ has created Modem/0,    *)
(* MockModem.__init__ has run, the main loop has not dispatched anything.  *)
(***************************************************************************)
NoCall ==
    [op |-> "none", arg |-> FALSE, state |-> MM_MODEM_STATE_DISABLED,
     idle |-> TRUE, mark |-> 0]

Ok == [kind |-> "ok"]

Init ==
    /\ state = MM_MODEM_STATE_DISABLED
    /\ enabled = FALSE
    /\ timers = <<>>
    /\ bearers = <<>>
    /\ objects = <<>>
    /\ events = <<>>
    /\ lastOp = [op |-> "init", arg |-> FALSE, res |-> Ok]
    /\ lastCall = NoCall
    /\ scheduled = 0
    /\ fired = <<>>
    /\ modemCalls = 0
    /\ calls = 0

\* History of a Modem call that reassigns state: what the call found.
Called(op, arg) ==
    [op |-> op, arg |-> arg, state |-> state, idle |-> (timers = <<>>),
     mark |-> Len(events)]

\* Mutant of Enable: the call cancels the pending timeouts before it starts
\* its own chain.
EnableReplacesChain(enable) ==
    /\ modemCalls < MaxModemCalls
    /\ IF enable
       THEN /\ state' = MM_MODEM_STATE_ENABLING
            /\ timers' = TimeoutAdd(<<>>, FINISH_ENABLE_DELAY, "_finish_enable")
       ELSE /\ state' = MM_MODEM_STATE_DISABLING
            /\ timers' = TimeoutAdd(<<>>, FINISH_DISABLE_DELAY, "_finish_disable")
    /\ enabled' = enable
    /\ events' = EmitStateChanged(events, state', state)
    /\ lastOp' = [op |-> "Enable", arg |-> enable, res |-> Ok]
    /\ lastCall' = Called("Enable", enable)
    /\ scheduled' = scheduled + 1
    /\ modemCalls' = modemCalls + 1
    /\ calls' = calls + 1
    /\ UNCHANGED <<fired, bearerVars>>

(***************************************************************************)
(* MockModem.Enable(enable)                                                *)
(***************************************************************************)
Enable(enable) ==
    /\ modemCalls < MaxModemCalls
    /\ IF enable
       THEN /\ state' = MM_MODEM_STATE_ENABLING
            /\ timers' = TimeoutAdd(timers, FINISH_ENABLE_DELAY, "_finish_enable")
       ELSE /\ state' = MM_MODEM_STATE_DISABLING
            /\ timers' = TimeoutAdd(timers, FINISH_DISABLE_DELAY, "_finish_disable")
    /\ enabled' = enable
    /\ events' = EmitStateChanged(events, state', state)
    /\ lastOp' = [op |-> "Enable", arg |-> enable, res |-> Ok]
    /\ lastCall' = Called("Enable", enable)
    /\ scheduled' = scheduled + 1
    /\ modemCalls' = modemCalls + 1
    /\ calls' = calls + 1
    /\ UNCHANGED <<fired, bearerVars>>

\* Mutant of FinishEnable: the callback forgets to schedule _register.
FinishEnableNoRegister ==
    /\ Dispatching("_finish_enable")
    /\ state' = MM_MODEM_STATE_ENABLED
    /\ events' = EmitStateChanged(events, state', state)
    /\ timers' = RemoveAt(timers, NextReady(timers))
    /\ fired' = Dispatched(timers[NextReady(timers)])
    /\ lastOp' = [op |-> "_finish_enable", arg |-> FALSE, res |-> Ok]
    /\ UNCHANGED <<enabled, lastCall, scheduled, modemCalls, calls, bearerVars>>

(***************************************************************************)
(* MockModem._finish_enable, dispatched by the main loop.                  *)
(***************************************************************************)
FinishEnable ==
    /\ Dispatching("_finish_enable")
    /\ state' = MM_MODEM_STATE_ENABLED
    /\ events' = EmitStateChanged(events, state', state)
    /\ timers' = RemoveAt(TimeoutAdd(timers, REGISTER_DELAY, "_register"),
                          NextReady(timers))
    /\ fired' = Dispatched(timers[NextReady(timers)])
    /\ scheduled' = scheduled + 1
    /\ lastOp' = [op |-> "_finish_enable", arg |-> FALSE, res |-> Ok]
    /\ UNCHANGED <<enabled, lastCall, modemCalls, calls, bearerVars>>

\* Mutant of FinishDisable: the callback assigns state and emits nothing.
FinishDisableSilent ==
    /\ Dispatching("_finish_disable")
    /\ state' = MM_MODEM_STATE_DISABLED
    /\ timers' = RemoveAt(timers, NextReady(timers))
    /\ fired' = Dispatched(timers[NextReady(timers)])
    /\ lastOp' = [op |-> "_finish_disable", arg |-> FALSE, res |-> Ok]
    /\ UNCHANGED <<events, enabled, lastCall, scheduled, modemCalls, calls, bearerVars>>

(***************************************************************************)
(* MockModem._finish_disable                                               *)
(***************************************************************************)
FinishDisable ==
    /\ Dispatching("_finish_disable")
    /\ state' = MM_MODEM_STATE_DISABLED
    /\ events' = EmitStateChanged(events, state', state)
    /\ timers' = RemoveAt(timers, NextReady(timers))
    /\ fired' = Dispatched(timers[NextReady(timers)])
    /\ lastOp' = [op |-> "_finish_disable", arg |-> FALSE, res |-> Ok]
    /\ UNCHANGED <<enabled, lastCall, scheduled, modemCalls, calls, bearerVars>>

\* Mutant of Register: the callback forgets to schedule _finish_register.
RegisterNoFinish ==
    /\ Dispatching("_register")
    /\ state' = MM_MODEM_STATE_SEARCHING
    /\ events' = EmitStateChanged(events, state', state)
    /\ timers' = RemoveAt(timers, NextReady(timers))
    /\ fired' = Dispatched(timers[NextReady(timers)])
    /\ lastOp' = [op |-> "_register", arg |-> FALSE, res |-> Ok]
    /\ UNCHANGED <<enabled, lastCall, scheduled, modemCalls, calls, bearerVars>>

(***************************************************************************)
(* MockModem._register                                                     *)
(***************************************************************************)
Register ==
    /\ Dispatching("_register")
    /\ state' = MM_MODEM_STATE_SEARCHING
    /\ events' = EmitStateChanged(events, state', state)
    /\ timers' = RemoveAt(TimeoutAdd(timers, FINISH_REGISTER_DELAY, "_finish_register"),
                          NextReady(timers))
    /\ fired' = Dispatched(timers[NextReady(timers)])
    /\ scheduled' = scheduled + 1
    /\ lastOp' = [op |-> "_register", arg |-> FALSE, res |-> Ok]
    /\ UNCHANGED <<enabled, lastCall, modemCalls, calls, bearerVars>>

(***************************************************************************)
(* MockModem._finish_register                                              *)
(***************************************************************************)
FinishRegister ==
    /\ Dispatching("_finish_register")
    /\ state' = MM_MODEM_STATE_REGISTERED
    /\ events' = EmitStateChanged(events, state', state)
    /\ timers' = RemoveAt(timers, NextReady(timers))
    /\ fired' = Dispatched(timers[NextReady(timers)])
    /\ lastOp' = [op |-> "_finish_register", arg |-> FALSE, res |-> Ok]
    /\ UNCHANGED <<enabled, lastCall, scheduled, modemCalls, calls, bearerVars>>

\* Mutant of Reset: the reset goes through Disabling and a timeout, as
\* Enable(False) does.
ResetDeferred ==
    /\ modemCalls < MaxModemCalls
    /\ state' = MM_MODEM_STATE_DISABLING
    /\ timers' = TimeoutAdd(timers, FINISH_DISABLE_DELAY, "_finish_disable")
    /\ events' = EmitStateChanged(events, state', state)
    /\ lastOp' = [op |-> "Reset", arg |-> FALSE, res |-> Ok]
    /\ lastCall' = Called("Reset", FALSE)
    /\ scheduled' = scheduled + 1
    /\ modemCalls' = modemCalls + 1
    /\ calls' = calls + 1
    /\ UNCHANGED <<enabled, fired, bearerVars>>

\* Mutant of Reset: a reset that also cancels the pending timeouts.
ResetCancelsTimers ==
    /\ modemCalls < MaxModemCalls
    /\ state' = MM_MODEM_STATE_DISABLED
    /\ timers' = <<>>
    /\ events' = EmitStateChanged(events, state', state)
    /\ lastOp' = [op |-> "Reset", arg |-> FALSE, res |-> Ok]
    /\ lastCall' = Called("Reset", FALSE)
    /\ modemCalls' = modemCalls + 1
    /\ calls' = calls + 1
    /\ UNCHANGED <<enabled, scheduled, fired, bearerVars>>

(***************************************************************************)
(* MockModem.Reset                                                         *)
(***************************************************************************)
Reset ==
    /\ modemCalls < MaxModemCalls
    /\ state' = MM_MODEM_STATE_DISABLED
    /\ events' = EmitStateChanged(events, state', state)
    /\ lastOp' = [op |-> "Reset", arg |-> FALSE, res |-> Ok]
    /\ lastCall' = Called("Reset", FALSE)
    /\ modemCalls' = modemCalls + 1
    /\ calls' = calls + 1
    /\ UNCHANGED <<enabled, timers, scheduled, fired, bearerVars>>

(***************************************************************************)
(* The main loop sleeps: no source is ready, so Quantum milliseconds pass  *)
(* on every pending timeout.                                               *)
(***************************************************************************)
Tick ==
    /\ timers # <<>>
    /\ Ready(timers) = {}
    /\ timers' = [i \in 1..Len(timers) |->
                    [timers[i] EXCEPT !.left = @ - Quantum]]
    /\ lastOp' = [op |-> "tick", arg |-> FALSE, res |-> Ok]
    /\ UNCHANGED <<state, enabled, events, lastCall, scheduled, fired, modemCalls,
                   calls, bearerVars>>

(***************************************************************************)
(* MockBearer.__init__(bus, object_path, properties).  The object is       *)
(* registered on the connection at object_path by dbus.service.Object and  *)
(* nothing ever removes it: the connection keeps it alive, as it does the  *)
(* Modem that _create_mock_modem drops after storing only its path.        *)
(***************************************************************************)
DictGet(d, key, default) == IF key \in DOMAIN d THEN d[key] ELSE default

MockBearer(properties) ==
    [properties |-> properties,
     connected |-> FALSE,
     interface |-> "wwan0",
     ip_type |-> DictGet(properties, "ip-type", "ipv4"),
     apn |-> DictGet(properties, "apn", "internet")]

\* The property mappings callers pass to CreateBearer.
BearerProperties ==
    { <<>>, [k \in {"apn", "ip-type"} |-> IF k = "apn" THEN "test.apn" ELSE "ipv6"] }

\* The object paths callers pass to DeleteBearer and address Bearers by.
CallerPaths == {BearerPath(i) : i \in 0..MaxBearerCalls} \cup {SimPath}

\* An exception leaving a handler is sent to the caller as a D-Bus error.
DBusError(name, message) == [kind |-> "error", name |-> name, message |-> message]

\* dbus-python refuses a second handler for an object path (KeyError).
AlreadyRegistered(path) ==
    DBusError("org.freedesktop.DBus.Python.KeyError",
              <<"Can't register the object-path handler for ", path,
                ": there is already a handler">>)

Returned(value) == [kind |-> "value", value |-> value]

\* Mutant of CreateBearer: a registration at a path that has a handler
\* replaces the handler, so the constructor never raises.
CreateBearerReplaces(properties) ==
    /\ calls - modemCalls < MaxBearerCalls
    /\ LET bearer_index == Len(bearers)
           bearer_path == BearerPath(bearer_index)
       IN  /\ objects' = [q \in DOMAIN objects \cup {bearer_path} |->
                             IF q = bearer_path THEN MockBearer(properties)
                             ELSE objects[q]]
           /\ bearers' = Append(bearers, bearer_path)
           /\ lastOp' = [op |-> "CreateBearer", arg |-> properties,
                         found |-> bearers,
                         res |-> Returned(bearer_path)]
    /\ calls' = calls + 1
    /\ UNCHANGED modemVars

(***************************************************************************)
(* MockModem.CreateBearer(properties)                                      *)
(***************************************************************************)
CreateBearer(properties) ==
    /\ calls - modemCalls < MaxBearerCalls
    /\ LET bearer_index == Len(bearers)
           bearer_path == BearerPath(bearer_index)
       IN  IF bearer_path \in DOMAIN objects
           THEN \* MockBearer(...) raises before the append
                /\ lastOp' = [op |-> "CreateBearer", arg |-> properties,
                              found |-> bearers,
                              res |-> AlreadyRegistered(bearer_path)]
                /\ UNCHANGED <<bearers, objects>>
           ELSE /\ objects' = [q \in DOMAIN objects \cup {bearer_path} |->
                                 IF q = bearer_path THEN MockBearer(properties)
                                 ELSE objects[q]]
                /\ bearers' = Append(bearers, bearer_path)
                /\ lastOp' = [op |-> "CreateBearer", arg |-> properties,
                              found |-> bearers,
                              res |-> Returned(bearer_path)]
    /\ calls' = calls + 1
    /\ UNCHANGED modemVars

\* list.remove(x): drop the first element equal to x.
ListRemove(s, x) ==
    RemoveAt(s, CHOOSE i \in 1..Len(s) : s[i] = x /\ \A j \in 1..(i - 1) : s[j] # x)

\* Mutant of DeleteBearerResult: del self.bearers[0] in place of remove().
DeleteBearerDropsFirst(bs, bearer_path) ==
    IF bearer_path \in Range(bs) THEN RemoveAt(bs, 1) ELSE bs

\* The body of DeleteBearer: the list self.bearers is left with.
DeleteBearerResult(bs, bearer_path) ==
    IF bearer_path \in Range(bs) THEN ListRemove(bs, bearer_path) ELSE bs

\* History: when the step before this call was the CreateBearer call that
\* returned bearer_path, the list that call found; otherwise nothing.
Undoes(bearer_path) ==
    IF lastOp.op = "CreateBearer" /\ lastOp.res = Returned(bearer_path)
    THEN <<lastOp.found>>
    ELSE <<>>

\* Mutant of DeleteBearer: remove() without the membership test, so an absent
\* path raises ValueError.
DeleteBearerUnguarded(bearer_path) ==
    /\ calls - modemCalls < MaxBearerCalls
    /\ IF bearer_path \in Range(bearers)
       THEN /\ bearers' = ListRemove(bearers, bearer_path)
            /\ lastOp' = [op |-> "DeleteBearer", arg |-> bearer_path,
                          found |-> bearers, undoes |-> Undoes(bearer_path),
                          res |-> Ok]
       ELSE /\ bearers' = bearers
            /\ lastOp' = [op |-> "DeleteBearer", arg |-> bearer_path,
                          found |-> bearers, undoes |-> Undoes(bearer_path),
                          res |-> DBusError("org.freedesktop.DBus.Python.ValueError",
                                            <<"list.remove(x): x not in list">>)]
    /\ calls' = calls + 1
    /\ UNCHANGED <<objects, modemVars>>

(***************************************************************************)
(* MockModem.DeleteBearer(bearer_path)                                     *)
(***************************************************************************)
DeleteBearer(bearer_path) ==
    /\ calls - modemCalls < MaxBearerCalls
    /\ bearers' = DeleteBearerResult(bearers, bearer_path)
    /\ lastOp' = [op |-> "DeleteBearer", arg |-> bearer_path,
                  found |-> bearers, undoes |-> Undoes(bearer_path), res |-> Ok]
    /\ calls' = calls + 1
    /\ UNCHANGED <<objects, modemVars>>

(***************************************************************************)
(* MockBearer.Connect and MockBearer.Disconnect, on a registered Bearer.   *)
(***************************************************************************)
\* Mutant of BearerConnect: the Bearer connects only on a registered Modem.
BearerConnectNeedsRegistered(path) ==
    /\ calls - modemCalls < MaxBearerCalls
    /\ path \in DOMAIN objects
    /\ IF state = MM_MODEM_STATE_REGISTERED
       THEN /\ objects' = [objects EXCEPT ![path].connected = TRUE]
            /\ lastOp' = [op |-> "Bearer.Connect", arg |-> path, res |-> Ok]
       ELSE /\ objects' = objects
            /\ lastOp' = [op |-> "Bearer.Connect", arg |-> path,
                          res |-> DBusError("org.freedesktop.ModemManager1.Error.Core.WrongState",
                                            <<"Modem not registered">>)]
    /\ calls' = calls + 1
    /\ UNCHANGED <<bearers, modemVars>>

\* Mutant of BearerConnect: connecting a Bearer moves the Modem to Connected.
BearerConnectSetsModemState(path) ==
    /\ calls - modemCalls < MaxBearerCalls
    /\ path \in DOMAIN objects
    /\ objects' = [objects EXCEPT ![path].connected = TRUE]
    /\ state' = MM_MODEM_STATE_CONNECTED
    /\ events' = EmitStateChanged(events, state', state)
    /\ lastOp' = [op |-> "Bearer.Connect", arg |-> path, res |-> Ok]
    /\ calls' = calls + 1
    /\ UNCHANGED <<bearers, enabled, timers, lastCall, scheduled, fired, modemCalls>>

BearerConnect(path) ==
    /\ calls - modemCalls < MaxBearerCalls
    /\ path \in DOMAIN objects
    /\ objects' = [objects EXCEPT ![path].connected = TRUE]
    /\ lastOp' = [op |-> "Bearer.Connect", arg |-> path, res |-> Ok]
    /\ calls' = calls + 1
    /\ UNCHANGED <<bearers, modemVars>>

BearerDisconnect(path) ==
    /\ calls - modemCalls < MaxBearerCalls
    /\ path \in DOMAIN objects
    /\ objects' = [objects EXCEPT ![path].connected = FALSE]
    /\ lastOp' = [op |-> "Bearer.Disconnect", arg |-> path, res |-> Ok]
    /\ calls' = calls + 1
    /\ UNCHANGED <<bearers, modemVars>>

(***************************************************************************)
(* Properties.Get on the four object types.  Each handler builds its       *)
(* property table from the object's current fields and looks the name up.  *)
(***************************************************************************)
\* The property names callers ask for.
CallerNames == {"Version", "State", "Imsi", "Connected", "UnknownProp"}

\* raise DBusException(f"Property {property_name} not found", name=...InvalidArgs)
PropertyNotFound(property_name) ==
    DBusError("org.freedesktop.DBus.Error.InvalidArgs",
              <<"Property ", property_name, " not found">>)

\* Mutant of Lookup: property_map.get(property_name), which answers None.
LookupOrNone(property_map, property_name) ==
    IF property_name \in DOMAIN property_map
    THEN Returned(property_map[property_name])
    ELSE Returned("None")

\* The lookup that ends every Get handler.
Lookup(property_map, property_name) ==
    IF property_name \in DOMAIN property_map
    THEN Returned(property_map[property_name])
    ELSE PropertyNotFound(property_name)

\* MockModemManagerService.version
version == "1.12.8-mock"

\* MockModemManagerService.Get answers "Version" only.
ManagerPropertyMap == [Version |-> version]

\* property_map of MockModem.Get
ModemPropertyMap ==
    [State |-> state,
     Manufacturer |-> "MockModem Inc.",
     Model |-> "MockModem X1000",
     Revision |-> "1.0.0",
     DeviceIdentifier |-> "mock-0000",
     EquipmentIdentifier |-> "IMEI123456789012345",
     Device |-> "/sys/devices/mock",
     Drivers |-> <<"mock_driver">>,
     Plugin |-> "Mock",
     PrimaryPort |-> "ttyUSB0",
     Ports |-> << <<"ttyUSB0", 1>>, <<"ttyUSB1", 2>> >>,
     Sim |-> SimPath,
     Bearers |-> bearers,
     SupportedCapabilities |-> <<MM_MODEM_CAPABILITY_GSM_UMTS + MM_MODEM_CAPABILITY_LTE>>,
     CurrentCapabilities |-> MM_MODEM_CAPABILITY_LTE,
     MaxBearers |-> max_bearers,
     MaxActiveBearers |-> max_active_bearers,
     OwnNumbers |-> <<"+1234567890">>,
     UnlockRequired |-> unlock_required,
     PowerState |-> power_state,
     SignalQuality |-> <<signal_quality, TRUE>>,
     AccessTechnologies |-> MM_MODEM_ACCESS_TECHNOLOGY_LTE,
     SupportedModes |-> << <<all_modes, 0>> >>,
     CurrentModes |-> <<all_modes, 0>>,
     SupportedBands |-> <<0, 1, 2, 3>>,
     CurrentBands |-> <<0, 1, 2>>,
     SupportedIpFamilies |-> supported_ip_families]

\* property_map of MockSim.Get
SimPropertyMap ==
    [SimIdentifier |-> "89012345678901234567",
     Imsi |-> "310260123456789",
     OperatorIdentifier |-> "310260",
     OperatorName |-> "T-Mobile"]

\* property_map of MockBearer.Get, for the Bearer object b
BearerPropertyMap(b) ==
    [Connected |-> b.connected,
     Interface |-> b.interface,
     IpType |-> b.ip_type]

ManagerGet(property_name) ==
    /\ lastOp' = [op |-> "Manager.Get", arg |-> property_name,
                  res |-> Lookup(ManagerPropertyMap, property_name)]
    /\ UNCHANGED <<calls, modemVars, bearerVars>>

ModemGet(property_name) ==
    /\ lastOp' = [op |-> "Modem.Get", arg |-> property_name,
                  res |-> Lookup(ModemPropertyMap, property_name)]
    /\ UNCHANGED <<calls, modemVars, bearerVars>>

SimGet(property_name) ==
    /\ lastOp' = [op |-> "Sim.Get", arg |-> property_name,
                  res |-> Lookup(SimPropertyMap, property_name)]
    /\ UNCHANGED <<calls, modemVars, bearerVars>>

BearerGet(path, property_name) ==
    /\ path \in DOMAIN objects
    /\ lastOp' = [op |-> "Bearer.Get", arg |-> property_name, path |-> path,
                  res |-> Lookup(BearerPropertyMap(objects[path]), property_name)]
    /\ UNCHANGED <<calls, modemVars, bearerVars>>

(***************************************************************************)
(* Properties.GetAll.  MockModemManagerService and MockModem define it;    *)
(* MockSim and MockBearer define Get only, so a GetAll call addressed to   *)
(* one of them finds no method of that name and the caller gets the bus    *)
(* error for an unknown method.                                            *)
(***************************************************************************)
\* return {"Version": self.version}
ManagerProps == [Version |-> version]

\* props of MockModem.GetAll
ModemProps ==
    [State |-> state,
     Manufacturer |-> "MockModem Inc.",
     Model |-> "MockModem X1000",
     Revision |-> "1.0.0",
     DeviceIdentifier |-> "mock-0000",
     EquipmentIdentifier |-> "IMEI123456789012345"]

\* The reply to a call of a method the addressed object does not define.
UnknownMethod(method_name) ==
    DBusError("org.freedesktop.DBus.Error.UnknownMethod",
              <<"Method ", method_name, " does not exist">>)

ManagerGetAll ==
    /\ lastOp' = [op |-> "Manager.GetAll", arg |-> FALSE, res |-> Returned(ManagerProps)]
    /\ UNCHANGED <<calls, modemVars, bearerVars>>

ModemGetAll ==
    /\ lastOp' = [op |-> "Modem.GetAll", arg |-> FALSE, res |-> Returned(ModemProps)]
    /\ UNCHANGED <<calls, modemVars, bearerVars>>

SimGetAll ==
    /\ lastOp' = [op |-> "Sim.GetAll", arg |-> FALSE, res |-> UnknownMethod("GetAll")]
    /\ UNCHANGED <<calls, modemVars, bearerVars>>

BearerGetAll(path) ==
    /\ path \in DOMAIN objects
    /\ lastOp' = [op |-> "Bearer.GetAll", arg |-> path, res |-> UnknownMethod("GetAll")]
    /\ UNCHANGED <<calls, modemVars, bearerVars>>

(***************************************************************************)
(* The handlers that log the call and return: GetVersion, ScanDevices,     *)
(* SetLogging and InhibitDevice of the Manager, Command of the Modem,      *)
(* SendPin and SendPuk of the Sim.                                         *)
(***************************************************************************)
\* MockModemManagerService.modems after _create_mock_modem
modems == <<ModemPath>>

\* The arguments callers pass.
CallerCommands == {"ATI"}
CallerLevels == {"DEBUG"}
CallerUids == {"mock-0000"}
CallerPins == {"1234"}
CallerPuks == {"12345678"}

GetVersion ==
    /\ lastOp' = [op |-> "GetVersion", arg |-> FALSE, res |-> Returned(version)]
    /\ UNCHANGED <<calls, modemVars, bearerVars>>

ScanDevices ==
    /\ lastOp' = [op |-> "ScanDevices", arg |-> FALSE, res |-> Ok]
    /\ UNCHANGED <<calls, modemVars, bearerVars>>

SetLogging(level) ==
    /\ lastOp' = [op |-> "SetLogging", arg |-> level, res |-> Ok]
    /\ UNCHANGED <<calls, modemVars, bearerVars>>

\* Mutant of InhibitDevice: inhibiting the device disables the Modem.
InhibitDeviceDisables(uid, inhibit) ==
    /\ enabled' = (enabled /\ ~inhibit)
    /\ lastOp' = [op |-> "InhibitDevice", arg |-> <<uid, inhibit>>, res |-> Ok]
    /\ UNCHANGED <<calls, state, timers, events, lastCall, scheduled, fired,
                   modemCalls, bearerVars>>

InhibitDevice(uid, inhibit) ==
    /\ lastOp' = [op |-> "InhibitDevice", arg |-> <<uid, inhibit>>, res |-> Ok]
    /\ UNCHANGED <<calls, modemVars, bearerVars>>

Command(cmd) ==
    /\ lastOp' = [op |-> "Command", arg |-> cmd, res |-> Returned("OK")]
    /\ UNCHANGED <<calls, modemVars, bearerVars>>

SendPin(pin) ==
    /\ lastOp' = [op |-> "SendPin", arg |-> pin, res |-> Ok]
    /\ UNCHANGED <<calls, modemVars, bearerVars>>

SendPuk(puk, pin) ==
    /\ lastOp' = [op |-> "SendPuk", arg |-> <<puk, pin>>, res |-> Ok]
    /\ UNCHANGED <<calls, modemVars, bearerVars>>

(***************************************************************************)
(* The whole service: every handler and every callback.  A behaviour makes *)
(* at most MaxCalls calls of the assigning methods.                        *)
(***************************************************************************)
Next ==
    \/ calls < MaxCalls /\ \E enable \in BOOLEAN : Enable(enable)
    \/ FinishEnable
    \/ FinishDisable
    \/ Register
    \/ FinishRegister
    \/ calls < MaxCalls /\ Reset
    \/ Tick
    \/ calls < MaxCalls /\ \E properties \in BearerProperties : CreateBearer(properties)
    \/ calls < MaxCalls /\ \E bearer_path \in CallerPaths : DeleteBearer(bearer_path)
    \/ calls < MaxCalls /\ \E path \in CallerPaths : BearerConnect(path)
    \/ calls < MaxCalls /\ \E path \in CallerPaths : BearerDisconnect(path)
    \/ \E property_name \in CallerNames : ManagerGet(property_name)
    \/ \E property_name \in CallerNames : ModemGet(property_name)
    \/ \E property_name \in CallerNames : SimGet(property_name)
    \/ \E path \in CallerPaths, property_name \in CallerNames : BearerGet(path, property_name)
    \/ ManagerGetAll
    \/ ModemGetAll
    \/ SimGetAll
    \/ \E path \in CallerPaths : BearerGetAll(path)
    \/ GetVersion
    \/ ScanDevices
    \/ \E level \in CallerLevels : SetLogging(level)
    \/ \E uid \in CallerUids, inhibit \in BOOLEAN : InhibitDevice(uid, inhibit)
    \/ \E cmd \in CallerCommands : Command(cmd)
    \/ \E pin \in CallerPins : SendPin(pin)
    \/ \E puk \in CallerPuks, pin \in CallerPins : SendPuk(puk, pin)

Spec == Init /\ [][Next]_vars

(***************************************************************************)
(* The GLib main loop keeps running: time passes while timeouts are        *)
(* pending and a ready timeout is dispatched.                              *)
(***************************************************************************)
MainLoop ==
    /\ WF_vars(Tick)
    /\ WF_vars(FinishEnable)
    /\ WF_vars(FinishDisable)
    /\ WF_vars(Register)
    /\ WF_vars(FinishRegister)

(***************************************************************************)
(* The Modem's lifecycle alone: the calls and callbacks that assign state  *)
(* or schedule a timeout, under the running main loop.  Every other        *)
(* handler leaves state, enabled, the timeouts and the emissions as they   *)
(* are.                                                                    *)
(***************************************************************************)
NextLifecycle ==
    \/ \E enable \in BOOLEAN : Enable(enable)
    \/ Reset
    \/ FinishEnable
    \/ FinishDisable
    \/ Register
    \/ FinishRegister
    \/ Tick

LifecycleSpec == Init /\ [][NextLifecycle]_vars /\ MainLoop

(***************************************************************************)
(* The Bearers alone: the calls that create, delete, connect and           *)
(* disconnect them, and the reads that address them.  No handler of the    *)
(* Manager, the Modem's lifecycle or the Sim reads or assigns bearers or a *)
(* Bearer's fields.                                                        *)
(***************************************************************************)
NextBearers ==
    \/ \E properties \in BearerProperties : CreateBearer(properties)
    \/ \E bearer_path \in CallerPaths : DeleteBearer(bearer_path)
    \/ \E path \in CallerPaths : BearerConnect(path)
    \/ \E path \in CallerPaths : BearerDisconnect(path)
    \/ \E path \in CallerPaths, property_name \in CallerNames : BearerGet(path, property_name)

BearerSpec == Init /\ [][NextBearers]_vars

(***************************************************************************)
(* The Modem with Bearers on it: its lifecycle and CreateBearer, under the *)
(* running main loop.                                                      *)
(***************************************************************************)
NextModem ==
    \/ calls < MaxCalls /\ \E enable \in BOOLEAN : Enable(enable)
    \/ calls < MaxCalls /\ Reset
    \/ calls < MaxCalls /\ \E properties \in BearerProperties : CreateBearer(properties)
    \/ FinishEnable
    \/ FinishDisable
    \/ Register
    \/ FinishRegister
    \/ Tick

ModemSpec == Init /\ [][NextModem]_vars /\ MainLoop

(***************************************************************************)
(* Vocabulary of the properties.                                           *)
(***************************************************************************)
EnabledFamily ==
    {MM_MODEM_STATE_ENABLING, MM_MODEM_STATE_ENABLED, MM_MODEM_STATE_SEARCHING,
     MM_MODEM_STATE_REGISTERED, MM_MODEM_STATE_DISCONNECTING,
     MM_MODEM_STATE_CONNECTING, MM_MODEM_STATE_CONNECTED}

IsPrefix(s, t) == Len(s) <= Len(t) /\ \A i \in 1..Len(s) : s[i] = t[i]

\* The ids a behaviour can give to its timeouts: an Enable call attaches one
\* and its chain at most two more.
TimerIds == 1..(3 * MaxModemCalls)

\* The state each timer callback assigns.
Assigns ==
    [_finish_enable |-> MM_MODEM_STATE_ENABLED,
     _finish_disable |-> MM_MODEM_STATE_DISABLED,
     _register |-> MM_MODEM_STATE_SEARCHING,
     _finish_register |-> MM_MODEM_STATE_REGISTERED]

\* The delay each timer callback is scheduled with.
Delays ==
    [_finish_enable |-> FINISH_ENABLE_DELAY,
     _finish_disable |-> FINISH_DISABLE_DELAY,
     _register |-> REGISTER_DELAY,
     _finish_register |-> FINISH_REGISTER_DELAY]

\* The number of emissions that announce the state st.
Emissions(st) == Cardinality({i \in 1..Len(events) : events[i].new = st})

\* The ids of the pending timeouts and of the dispatched ones.
PendingIds == {timers[i].id : i \in 1..Len(timers)}
FiredIds == {fired[i].id : i \in 1..Len(fired)}

\* The states announced by the emissions from the latest Enable or Reset call on.
Announced ==
    [i \in 1..(Len(events) - lastCall.mark) |-> events[lastCall.mark + i].new]

EnablePath ==
    <<MM_MODEM_STATE_ENABLING, MM_MODEM_STATE_ENABLED, MM_MODEM_STATE_SEARCHING,
      MM_MODEM_STATE_REGISTERED>>

DisablePath == <<MM_MODEM_STATE_DISABLING, MM_MODEM_STATE_DISABLED>>

(***************************************************************************)
(* C1.  The latest Enable/Reset call was Enable(true), made in state       *)
(* Disabled with no timer pending.  Then the emissions from that call on   *)
(* announce Enabling, Enabled, Searching, Registered in this order and     *)
(* nothing else; before any timer has fired Get("State") returns Enabling; *)
(* the Modem is in Registered exactly when all four have been emitted, and *)
(* it is there once no timer is pending; and unless another Enable or      *)
(* Reset call is made the Modem does reach Registered.                     *)
(***************************************************************************)
C1_Case ==
    /\ lastCall.op = "Enable"
    /\ lastCall.arg = TRUE
    /\ lastCall.state = MM_MODEM_STATE_DISABLED
    /\ lastCall.idle

C1_Safe ==
    C1_Case =>
        /\ Len(Announced) >= 1
        /\ IsPrefix(Announced, EnablePath)
        /\ Len(Announced) = 1 =>
               Lookup(ModemPropertyMap, "State") = Returned(MM_MODEM_STATE_ENABLING)
        /\ state = MM_MODEM_STATE_REGISTERED <=> Announced = EnablePath
        /\ timers = <<>> => state = MM_MODEM_STATE_REGISTERED

C1_EnableReachesRegistered ==
    /\ []C1_Safe
    /\ C1_Case ~> (state = MM_MODEM_STATE_REGISTERED \/ ~C1_Case)

C1_Witness ==
    /\ C1_Case
    /\ state = MM_MODEM_STATE_REGISTERED
    /\ timers = <<>>
    /\ Announced = EnablePath

(***************************************************************************)
(* C2.  As claimed: the latest Enable/Reset call was Enable(false), made   *)
(* in an enabled-family state, timers pending or not.  Then the emissions  *)
(* from that call on announce Disabling, Disabled and nothing else, and    *)
(* the Modem is in Disabled once no timer is pending.                      *)
(***************************************************************************)
C2_Case ==
    /\ lastCall.op = "Enable"
    /\ lastCall.arg = FALSE
    /\ lastCall.state \in EnabledFamily

C2_Outcome ==
    /\ Len(Announced) >= 1
    /\ IsPrefix(Announced, DisablePath)
    /\ timers = <<>> => (state = MM_MODEM_STATE_DISABLED /\ Announced = DisablePath)

C2_DisableFromAnyEnabledState == C2_Case => C2_Outcome

(***************************************************************************)
(* C2, amended.  The same, for an Enable(false) call made while no timer   *)
(* was pending; and unless another Enable or Reset call is made the Modem  *)
(* does come to rest in Disabled.                                          *)
(***************************************************************************)
C2_DisableAtRest ==
    /\ [](C2_Case /\ lastCall.idle => C2_Outcome)
    /\ (C2_Case /\ lastCall.idle) ~>
           \/ state = MM_MODEM_STATE_DISABLED /\ timers = <<>>
           \/ ~(C2_Case /\ lastCall.idle)

C2_Witness ==
    /\ C2_Case
    /\ lastCall.idle
    /\ state = MM_MODEM_STATE_DISABLED
    /\ timers = <<>>
    /\ Announced = DisablePath

(***************************************************************************)
(* C3.  The enabled flag is true exactly when state is one of Enabling,    *)
(* Enabled, Searching, Registered, Disconnecting, Connecting, Connected.   *)
(***************************************************************************)
C3_EnabledIffEnabledFamily == enabled <=> state \in EnabledFamily

(***************************************************************************)
(* C4.  Every StateChanged emission carries as old the value state had     *)
(* before the assignment that triggered it, as new the value after it (the *)
(* latest emission's new is the current state), and the one fixed reason.  *)
(***************************************************************************)
C4_PayloadOldNewReason ==
    /\ \A i \in 1..Len(events) :
          /\ events[i].old = events[i].was
          /\ events[i].reason = STATE_CHANGED_REASON
    /\ events # <<>> => events[Len(events)].new = state

(***************************************************************************)
(* C5.  Every change of the state value is a transition of the diagram:    *)
(* Disabled to Enabling, Enabling to Enabled, Enabled to Searching,        *)
(* Searching to Registered, an enabled-family state to Disabling,          *)
(* Disabling to Disabled, or any state to Disabled by Reset.               *)
(***************************************************************************)
Diagram ==
    {<<MM_MODEM_STATE_DISABLED, MM_MODEM_STATE_ENABLING>>,
     <<MM_MODEM_STATE_ENABLING, MM_MODEM_STATE_ENABLED>>,
     <<MM_MODEM_STATE_ENABLED, MM_MODEM_STATE_SEARCHING>>,
     <<MM_MODEM_STATE_SEARCHING, MM_MODEM_STATE_REGISTERED>>,
     <<MM_MODEM_STATE_DISABLING, MM_MODEM_STATE_DISABLED>>}
    \cup {<<s, MM_MODEM_STATE_DISABLING>> : s \in EnabledFamily}

C5_OnlyDiagramTransitions ==
    [][state' # state =>
          \/ <<state, state'>> \in Diagram
          \/ lastOp'.op = "Reset" /\ state' = MM_MODEM_STATE_DISABLED]_vars

(***************************************************************************)
(* C6.  A Reset call, in any state and with any timers pending, leaves     *)
(* state = Disabled, emits exactly one StateChanged during the call and    *)
(* neither fires nor changes a pending timer.                              *)
(***************************************************************************)
C6_ResetImmediate ==
    [][lastOp'.op = "Reset" =>
          /\ state' = MM_MODEM_STATE_DISABLED
          /\ Len(events') = Len(events) + 1
          /\ events'[Len(events')].new = MM_MODEM_STATE_DISABLED
          /\ timers' = timers]_vars

C6_Witness ==
    /\ lastOp.op = "Reset"
    /\ lastCall.state = MM_MODEM_STATE_SEARCHING
    /\ state = MM_MODEM_STATE_DISABLED
    /\ timers # <<>>

(***************************************************************************)
(* C7.  The bearers list never holds more than max_active_bearers entries. *)
(***************************************************************************)
C7_BearersWithinMaxActive == Len(bearers) <= max_active_bearers

(***************************************************************************)
(* C8.  A DeleteBearer call that directly follows the CreateBearer call    *)
(* that returned its argument leaves bearers as that CreateBearer call     *)
(* found it.                                                               *)
(***************************************************************************)
C8_CreateDeleteRoundTrip ==
    (lastOp.op = "DeleteBearer" /\ lastOp.undoes # <<>>) =>
        bearers = lastOp.undoes[1]

C8_Witness ==
    /\ lastOp.op = "DeleteBearer"
    /\ lastOp.undoes # <<>>
    /\ lastOp.undoes[1] # <<>>
    /\ bearers = lastOp.undoes[1]

(***************************************************************************)
(* C9.  A DeleteBearer call whose argument is not in bearers returns       *)
(* without error and changes neither bearers, state, enabled nor the       *)
(* pending timers, and emits nothing; and a second DeleteBearer call with  *)
(* the same argument leaves bearers as the first one left it.              *)
(***************************************************************************)
C9_DeleteAbsentIsNoOp ==
    [][lastOp'.op = "DeleteBearer" =>
          /\ lastOp'.arg \notin Range(bearers) =>
                 /\ lastOp'.res = Ok
                 /\ UNCHANGED <<bearers, state, enabled, timers, events, objects>>
          /\ (lastOp.op = "DeleteBearer" /\ lastOp.arg = lastOp'.arg) =>
                 bearers' = bearers]_vars

\* The second of two DeleteBearer calls for a Bearer that was created.
C9_Witness ==
    /\ lastOp.op = "DeleteBearer"
    /\ lastOp.arg \notin Range(lastOp.found)
    /\ lastOp.arg \in DOMAIN objects
    /\ lastOp.res = Ok

(***************************************************************************)
(* C10.  On each of the four object types, Get of a name that is not in    *)
(* the object's property table fails with an InvalidArgs error that        *)
(* carries the name, and changes nothing.                                  *)
(***************************************************************************)
GetOps == {"Manager.Get", "Modem.Get", "Sim.Get", "Bearer.Get"}

\* The names the object asked by the Get call op answers.
PropertyTable(op) ==
    CASE op.op = "Manager.Get" -> {"Version"}
      [] op.op = "Modem.Get" ->
            {"State", "Manufacturer", "Model", "Revision", "DeviceIdentifier",
             "EquipmentIdentifier", "Device", "Drivers", "Plugin", "PrimaryPort",
             "Ports", "Sim", "Bearers", "SupportedCapabilities",
             "CurrentCapabilities", "MaxBearers", "MaxActiveBearers", "OwnNumbers",
             "UnlockRequired", "PowerState", "SignalQuality", "AccessTechnologies",
             "SupportedModes", "CurrentModes", "SupportedBands", "CurrentBands",
             "SupportedIpFamilies"}
      [] op.op = "Sim.Get" ->
            {"SimIdentifier", "Imsi", "OperatorIdentifier", "OperatorName"}
      [] op.op = "Bearer.Get" -> {"Connected", "Interface", "IpType"}

C10_GetUnknownFails ==
    [][(lastOp'.op \in GetOps /\ lastOp'.arg \notin PropertyTable(lastOp')) =>
          /\ lastOp'.res.kind = "error"
          /\ lastOp'.res.name = "org.freedesktop.DBus.Error.InvalidArgs"
          /\ \E i \in 1..Len(lastOp'.res.message) :
                 lastOp'.res.message[i] = lastOp'.arg
          /\ UNCHANGED <<state, enabled, timers, events, bearers, objects>>]_vars

C10_Witness ==
    /\ lastOp.op = "Bearer.Get"
    /\ lastOp.arg = "State"
    /\ lastOp.res = PropertyNotFound("State")
    /\ objects[lastOp.path].connected
    /\ timers # <<>>

(***************************************************************************)
(* C11.  A GetAll call addressed to the Manager, the Modem, the Sim or a   *)
(* Bearer succeeds and returns a mapping with at least one entry.          *)
(***************************************************************************)
GetAllOps == {"Manager.GetAll", "Modem.GetAll", "Sim.GetAll", "Bearer.GetAll"}

C11_GetAllOnEveryObject ==
    lastOp.op \in GetAllOps =>
        /\ lastOp.res.kind = "value"
        /\ DOMAIN lastOp.res.value # {}

(***************************************************************************)
(* C12.  A Reset call leaves enabled, bearers, the Bearer objects and the  *)
(* pending timers exactly as they were, and every timer that is pending    *)
(* when Reset returns fires later.                                         *)
(***************************************************************************)
C12_ResetKeepsTimers ==
    /\ [][lastOp'.op = "Reset" =>
             /\ enabled' = enabled
             /\ bearers' = bearers
             /\ objects' = objects
             /\ timers' = timers]_vars
    /\ \A id \in TimerIds :
           (lastOp.op = "Reset" /\ id \in PendingIds) ~> (id \in FiredIds)

\* Reset was called with the Modem enabled, a Bearer on it and timers
\* pending, and those timers have all fired since.
C12_Witness ==
    /\ lastCall.op = "Reset"
    /\ ~lastCall.idle
    /\ enabled
    /\ bearers # <<>>
    /\ timers = <<>>
    /\ fired # <<>>

(***************************************************************************)
(* C13.  No Enable or Reset call removes or replaces a pending timer, and  *)
(* an Enable call adds one of its own to those pending.  Every timer that  *)
(* was scheduled is pending or has fired, and has fired at most once;      *)
(* every pending timer fires eventually.  A callback that fires assigns    *)
(* its state and emits it whatever the state was.  Once no timer is        *)
(* pending, the emissions of Enabled, of Searching and of Registered each  *)
(* number as many as the Enable(true) calls (which are the emissions of    *)
(* Enabling).                                                              *)
(***************************************************************************)
C13_TimersStack ==
    /\ [][lastOp'.op \in {"Enable", "Reset"} => IsPrefix(timers, timers')]_vars
    /\ [][lastOp'.op = "Enable" => Len(timers') = Len(timers) + 1]_vars
    /\ [][lastOp'.op \in DOMAIN Assigns =>
             /\ state' = Assigns[lastOp'.op]
             /\ events' = Append(events, events'[Len(events')])
             /\ events'[Len(events')].new = Assigns[lastOp'.op]
             /\ events'[Len(events')].was = state]_vars
    /\ [](/\ PendingIds \cup FiredIds = 1..scheduled
          /\ PendingIds \cap FiredIds = {}
          /\ Cardinality(PendingIds) = Len(timers)
          /\ Cardinality(FiredIds) = Len(fired))
    /\ \A id \in TimerIds : (id \in PendingIds) ~> (id \in FiredIds)
    /\ [](timers = <<>> =>
             /\ Emissions(MM_MODEM_STATE_ENABLED) = Emissions(MM_MODEM_STATE_ENABLING)
             /\ Emissions(MM_MODEM_STATE_SEARCHING) = Emissions(MM_MODEM_STATE_ENABLING)
             /\ Emissions(MM_MODEM_STATE_REGISTERED) = Emissions(MM_MODEM_STATE_ENABLING))

\* Two Enable(true) calls, the second made while the first one's timers were
\* pending, and both chains have run to their end.
C13_Witness ==
    /\ lastCall.op = "Enable"
    /\ lastCall.arg
    /\ ~lastCall.idle
    /\ timers = <<>>
    /\ Emissions(MM_MODEM_STATE_ENABLING) = 2
    /\ Emissions(MM_MODEM_STATE_REGISTERED) = 2

(***************************************************************************)
(* C14, as stated.  Timers fire in the order they were scheduled: the      *)
(* timers that have fired did so in the order of their scheduling, and     *)
(* every timer still pending was scheduled after all of them.              *)
(***************************************************************************)
C14_FireInScheduledOrder ==
    /\ \A i, j \in 1..Len(fired) : i < j => fired[i].id < fired[j].id
    /\ \A i \in 1..Len(fired), k \in 1..Len(timers) : fired[i].id < timers[k].id

(***************************************************************************)
(* C14, amended.  A timer B fires before a timer A that was scheduled      *)
(* before it only if B's delay is shorter than A's: of two timers, the one *)
(* scheduled first fires first whenever its delay is not the longer one.   *)
(***************************************************************************)
C14_OrderedUpToShorterDelay ==
    /\ \A i, j \in 1..Len(fired) :
           (i < j /\ fired[j].id < fired[i].id) =>
               Delays[fired[i].cb] < Delays[fired[j].cb]
    /\ \A i \in 1..Len(fired), k \in 1..Len(timers) :
           timers[k].id < fired[i].id =>
               Delays[fired[i].cb] < Delays[timers[k].cb]

\* Enable(true) and then Enable(false) while the first call's timer was
\* pending: the two timers, of equal delay, fired in the order of the calls.
C14_Witness ==
    /\ ~lastCall.idle
    /\ Len(fired) >= 2
    /\ fired[1] = [id |-> 1, cb |-> "_finish_enable"]
    /\ fired[2] = [id |-> 2, cb |-> "_finish_disable"]

(***************************************************************************)
(* C15.  The Bearers that answer on the connection are exactly those whose *)
(* path is in the Modem's bearers list: once DeleteBearer has removed a    *)
(* path, no Bearer is addressable at it.                                   *)
(***************************************************************************)
C15_BearerLivesWhileListed == DOMAIN objects = Range(bearers)

(***************************************************************************)
(* C16.  A Connect call on a Bearer succeeds and leaves that Bearer        *)
(* connected, a Disconnect call succeeds and leaves it not connected,      *)
(* whatever the Modem's state; either call changes no other field of the   *)
(* Bearer and no other Bearer, and changes neither the Modem's state,      *)
(* enabled, bearers nor the pending timers, and emits nothing.             *)
(***************************************************************************)
C16_ConnectTouchesOnlyConnected ==
    [][lastOp'.op \in {"Bearer.Connect", "Bearer.Disconnect"} =>
          /\ lastOp'.res = Ok
          /\ objects' = [objects EXCEPT
                 ![lastOp'.arg].connected = (lastOp'.op = "Bearer.Connect")]
          /\ UNCHANGED <<state, enabled, bearers, timers, events>>]_vars

\* Connect on a Bearer of a Modem that is not registered and has timers
\* pending.
C16_Witness ==
    /\ lastOp.op = "Bearer.Connect"
    /\ objects[lastOp.arg].connected
    /\ state = MM_MODEM_STATE_ENABLING
    /\ timers # <<>>

(***************************************************************************)
(* C17.  A call of Command, GetVersion, ScanDevices, SetLogging,           *)
(* InhibitDevice, SendPin or SendPuk succeeds (Command answers "OK",       *)
(* GetVersion the version) and changes nothing: the Modem's state,         *)
(* enabled, bearers and pending timers, the Bearers, the Manager's modems  *)
(* and version and the properties of the Modem and the Sim are after the   *)
(* call what they were before it, and nothing is emitted.                  *)
(***************************************************************************)
QuietOps ==
    {"Command", "GetVersion", "ScanDevices", "SetLogging", "InhibitDevice",
     "SendPin", "SendPuk"}

C17_QuietCallsChangeNothing ==
    [][lastOp'.op \in QuietOps =>
          /\ lastOp'.res.kind \in {"ok", "value"}
          /\ lastOp'.op = "Command" => lastOp'.res = Returned("OK")
          /\ lastOp'.op = "GetVersion" => lastOp'.res = Returned(version)
          /\ UNCHANGED <<state, enabled, bearers, objects, timers, events>>
          /\ <<modems, version>>' = <<modems, version>>
          /\ ModemPropertyMap' = ModemPropertyMap
          /\ SimPropertyMap' = SimPropertyMap]_vars

\* Command on an enabled Modem with a Bearer on it and a timer pending.
C17_Witness ==
    /\ lastOp.op = "Command"
    /\ lastOp.res = Returned("OK")
    /\ enabled
    /\ bearers # <<>>
    /\ timers # <<>>

(***************************************************************************)
(* C18.  The paths in bearers are pairwise distinct, and a CreateBearer    *)
(* call that returns a path returns one that was not in bearers when the   *)
(* call was made.                                                          *)
(***************************************************************************)
C18_BearersPairwiseDistinct ==
    /\ \A i, j \in 1..Len(bearers) : i # j => bearers[i] # bearers[j]
    /\ (lastOp.op = "CreateBearer" /\ lastOp.res.kind = "value") =>
           lastOp.res.value \notin Range(lastOp.found)

\* CreateBearer after a DeleteBearer has shortened the list: the path for
\* the index len(bearers) is one the list still holds.
C18_Witness ==
    /\ lastOp.op = "CreateBearer"
    /\ BearerPath(Len(lastOp.found)) \in Range(lastOp.found)
    /\ bearers = lastOp.found

(***************************************************************************)
(* C19.  Every Enable call has at most one timer of its chain pending at a *)
(* time; after the calls of a behaviour the pending timers drain and none  *)
(* is pending from then on; and whenever no timer is pending the Modem is  *)
(* in Disabled or in Registered.                                           *)
(***************************************************************************)
C19_DrainsToRest ==
    /\ [](Len(timers) <= modemCalls)
    /\ [](timers = <<>> =>
             state \in {MM_MODEM_STATE_DISABLED, MM_MODEM_STATE_REGISTERED})
    /\ <>[](timers = <<>>)

\* Enable(false) was the last call, made while an Enable(true) chain was
\* pending; all timers have fired and the Modem rests in Registered.
C19_Witness ==
    /\ lastCall.op = "Enable"
    /\ ~lastCall.arg
    /\ ~lastCall.idle
    /\ timers = <<>>
    /\ state = MM_MODEM_STATE_REGISTERED

(***************************************************************************)
(* C20.  The Modem's state is always one of Disabled, Disabling, Enabling, *)
(* Enabled, Searching, Registered; it is never Failed, Unknown,            *)
(* Initializing, Locked, Disconnecting, Connecting or Connected, also      *)
(* after a Bearer has been connected.                                      *)
(***************************************************************************)
C20_StateWithinSix ==
    /\ state \in {MM_MODEM_STATE_DISABLED, MM_MODEM_STATE_DISABLING,
                  MM_MODEM_STATE_ENABLING, MM_MODEM_STATE_ENABLED,
                  MM_MODEM_STATE_SEARCHING, MM_MODEM_STATE_REGISTERED}
    /\ state \notin {MM_MODEM_STATE_FAILED, MM_MODEM_STATE_UNKNOWN,
                     MM_MODEM_STATE_INITIALIZING, MM_MODEM_STATE_LOCKED,
                     MM_MODEM_STATE_DISCONNECTING, MM_MODEM_STATE_CONNECTING,
                     MM_MODEM_STATE_CONNECTED}
    /\ \A i \in 1..Len(events) :
           events[i].new \in MM_MODEM_STATE_DISABLED..MM_MODEM_STATE_REGISTERED

\* A Bearer has just been connected on a registered Modem.
C20_Witness ==
    /\ lastOp.op = "Bearer.Connect"
    /\ objects[lastOp.arg].connected
    /\ state = MM_MODEM_STATE_REGISTERED

====
